---- MODULE Spec2Model ----
(***************************************************************************)
(* A model of three parts of genrl:                                        *)
(*   - UCBCBPolicy   (classical/bandit/contextual_policies/ucb.py)          *)
(*   - A2C           (deep/agents/a2c/a2c.py)                               *)
(*   - value models  (deep/common/values.py)                                *)
(* Each part has its own specification (Spec, SpecA2C, SpecValue); the     *)
(* variables of the other parts stay at their initial values.              *)
(*                                                                         *)
(* Floating point numbers are modelled as exact rationals <<n, d>> with    *)
(* d > 0 in lowest terms, so that "equal within floating tolerance" is     *)
(* equality.                                                               *)
(***************************************************************************)
EXTENDS Integers, Sequences, FiniteSets, TLC

VARIABLES
    \* ---- UCBCBPolicy ----
    confidence,     \* self._c
    quality,        \* self._quality  [context][action] -> rational
    counts,         \* self._counts   [context][action] -> number
    regret,         \* self._regret   (rational)
    action_hist,    \* self._action_hist
    reward_hist,    \* self._reward_hist
    regret_hist,    \* self._regret_hist
    calls,          \* history variable: the calls made so far, in order
    \* ---- A2C ----
    fields,         \* scalar attributes of agent A: name -> value
    ac,             \* actor and critic parameters of the agents A and B
    logs,           \* self.logs of agent A
    rewards,        \* self.rewards of agent A
    ret,            \* history variable: the last A2C call and what it returned
    \* ---- value models ----
    built           \* the last value-model call: its arguments and its outcome

ucbVars == <<confidence, quality, counts, regret, action_hist, reward_hist,
             regret_hist, calls>>
a2cVars == <<fields, ac, logs, rewards, ret>>
valVars == <<built>>
vars == <<ucbVars, a2cVars, valVars>>

----------------------------------------------------------------------------
(* Bounds *)

NumArms == 2            \* bandit.arms
MaxCalls == 3           \* calls made on one policy

Contexts == {0, 1}      \* bandit.bandits = 2
Arms == 0 .. (NumArms - 1)
Rewards == {-1, 0, 1}
Timesteps == {0, 3}
Confidences == {0, 1}

MaxLog == 2             \* entries kept in one log sequence
MaxBatches == 2         \* minibatches of one update_policy call
MaxRewards == 1         \* episode rewards collected between two reports
MaxDim == 2             \* state and action dimensions of a value model

Agents == {"A", "B"}
Params == {0, 1}        \* abstract values of a network's parameters
Observations == {0, 1}  \* abstract environment states
Actions == {0, 1}
\* abstract values of one minibatch's <<policy loss, value loss, entropy loss>>
MinibatchLosses == {<<1, 0, -1>>, <<-2, 3, 0>>}
EpisodeRewards == {1, 2}
LearningRates == {"0.01", "0.001"}

----------------------------------------------------------------------------
(* Rational arithmetic *)

Abs(x) == IF x < 0 THEN -x ELSE x

RECURSIVE GCD(_, _)
GCD(a, b) == IF b = 0 THEN a ELSE GCD(b, a % b)

Rat(n, d) ==
    LET s == IF d < 0 THEN -1 ELSE 1
        g == GCD(Abs(n), Abs(d))
    IN  <<(s * n) \div g, (s * d) \div g>>

RatInt(k) == <<k, 1>>
RatAdd(p, q) == Rat(p[1] * q[2] + q[1] * p[2], p[2] * q[2])
RatSub(p, q) == Rat(p[1] * q[2] - q[1] * p[2], p[2] * q[2])
RatDivInt(p, k) == Rat(p[1], p[2] * k)
RatLT(p, q) == p[1] * q[2] < q[1] * p[2]
RatLE(p, q) == p[1] * q[2] <= q[1] * p[2]

RECURSIVE SqrtIter(_, _, _)
SqrtIter(lo, hi, v) ==
    IF lo >= hi THEN lo
    ELSE LET mid == (lo + hi + 1) \div 2
         IN  IF mid * mid <= v THEN SqrtIter(mid, hi, v)
             ELSE SqrtIter(lo, mid - 1, v)

\* floor(sqrt(v)) for 0 <= v < 2000^2
ISqrt(v) == SqrtIter(0, 2000, v)

\* np.log(n) in thousandths
LnMilli(n) ==
    CASE n = 1 -> 0
      [] n = 2 -> 693
      [] n = 3 -> 1099
      [] n = 4 -> 1386
      [] n = 5 -> 1609

----------------------------------------------------------------------------
(* UCBCBPolicy *)

\* one term of the array expression of select_action, in thousandths:
\* quality[context] + confidence * sqrt(2 * log(t + 1) / (counts[context] + 1))
Score(c, a, t) ==
    (quality[c][a][1] * 1000) \div quality[c][a][2]
    + confidence * ISqrt((2 * LnMilli(t + 1) * 1000) \div (counts[c][a] + 1))

RECURSIVE ArgmaxLastFrom(_, _, _)
ArgmaxLastFrom(f, i, best) ==
    IF i >= NumArms THEN best
    ELSE ArgmaxLastFrom(f, i + 1, IF f[i] >= f[best] THEN i ELSE best)

RECURSIVE ArgmaxFrom(_, _, _)
\* np.argmax scans left to right and keeps the first maximum
ArgmaxFrom(f, i, best) ==
    IF i >= NumArms THEN best
    ELSE ArgmaxFrom(f, i + 1, IF f[i] > f[best] THEN i ELSE best)

argmax_last(f) == ArgmaxLastFrom(f, 1, 0)

argmax(f) == ArgmaxFrom(f, 1, 0)

RECURSIVE MaxFrom(_, _, _)
MaxFrom(row, i, best) ==
    IF i >= NumArms THEN best
    ELSE MaxFrom(row, i + 1, IF RatLT(best, row[i]) THEN row[i] ELSE best)

\* Python's max(self.quality[context])
max(row) == MaxFrom(row, 1, row[0])

QualityStepSkewed(q, reward, n) ==
    RatAdd(q, RatDivInt(RatSub(RatInt(reward), q), n + 2))

\* quality += (reward - quality) / (counts + 1)
QualityStep(q, reward, n) ==
    RatAdd(q, RatDivInt(RatSub(RatInt(reward), q), n + 1))

\* CBPolicy.__init__: no regret, empty histories
InitCBPolicy ==
    /\ regret = RatInt(0)
    /\ action_hist = <<>>
    /\ reward_hist = <<>>
    /\ regret_hist = <<>>

\* UCBCBPolicy.__init__
InitUCB ==
    /\ InitCBPolicy
    /\ confidence \in Confidences
    /\ quality = [c \in Contexts |-> [a \in Arms |-> RatInt(0)]]
    /\ counts = [c \in Contexts |-> [a \in Arms |-> 0]]
    /\ calls = <<>>

select_action(context, t) ==
    LET action == argmax([a \in Arms |-> Score(context, a, t)])
    IN  /\ Len(calls) < MaxCalls
        /\ action_hist' = Append(action_hist, <<context, action>>)
        /\ calls' = Append(calls, [op |-> "select_action", context |-> context,
                                   action |-> action, arg |-> t])
        /\ UNCHANGED <<confidence, quality, counts, regret, reward_hist, regret_hist>>

update_params_write_first(context, action, reward) ==
    LET q2 == [quality EXCEPT ![context][action] =
                   QualityStep(@, reward, counts[context][action])]
        r2 == RatAdd(regret, RatSub(max(q2[context]), q2[context][action]))
    IN  /\ Len(calls) < MaxCalls
        /\ reward_hist' = Append(reward_hist, reward)
        /\ quality' = q2
        /\ regret' = r2
        /\ regret_hist' = Append(regret_hist, r2)
        /\ counts' = [counts EXCEPT ![context][action] = @ + 1]
        /\ calls' = Append(calls, [op |-> "update_params", context |-> context,
                                   action |-> action, arg |-> reward])
        /\ UNCHANGED <<confidence, action_hist>>

update_params_no_snapshot(context, action, reward) ==
    LET r2 == RatAdd(regret, RatSub(max(quality[context]), quality[context][action]))
    IN  /\ Len(calls) < MaxCalls
        /\ reward_hist' = Append(reward_hist, reward)
        /\ regret' = r2
        /\ regret_hist' = regret_hist
        /\ quality' = [quality EXCEPT ![context][action] =
                           QualityStep(@, reward, counts[context][action])]
        /\ counts' = [counts EXCEPT ![context][action] = @ + 1]
        /\ calls' = Append(calls, [op |-> "update_params", context |-> context,
                                   action |-> action, arg |-> reward])
        /\ UNCHANGED <<confidence, action_hist>>

update_params_row_count(context, action, reward) ==
    LET r2 == RatAdd(regret, RatSub(max(quality[context]), quality[context][action]))
    IN  /\ Len(calls) < MaxCalls
        /\ reward_hist' = Append(reward_hist, reward)
        /\ regret' = r2
        /\ regret_hist' = Append(regret_hist, r2)
        /\ quality' = [quality EXCEPT ![context][action] =
                           QualityStep(@, reward, counts[context][action])]
        /\ counts' = [counts EXCEPT ![context] = [a \in Arms |-> @[a] + 1]]
        /\ calls' = Append(calls, [op |-> "update_params", context |-> context,
                                   action |-> action, arg |-> reward])
        /\ UNCHANGED <<confidence, action_hist>>

update_params_abs_gap(context, action, reward) ==
    LET r2 == RatAdd(regret, RatSub(RatInt(reward), quality[context][action]))
    IN  /\ Len(calls) < MaxCalls
        /\ reward_hist' = Append(reward_hist, reward)
        /\ regret' = r2
        /\ regret_hist' = Append(regret_hist, r2)
        /\ quality' = [quality EXCEPT ![context][action] =
                           QualityStep(@, reward, counts[context][action])]
        /\ counts' = [counts EXCEPT ![context][action] = @ + 1]
        /\ calls' = Append(calls, [op |-> "update_params", context |-> context,
                                   action |-> action, arg |-> reward])
        /\ UNCHANGED <<confidence, action_hist>>

update_params(context, action, reward) ==
    LET r2 == RatAdd(regret, RatSub(max(quality[context]), quality[context][action]))
    IN  /\ Len(calls) < MaxCalls
        /\ reward_hist' = Append(reward_hist, reward)
        /\ regret' = r2
        /\ regret_hist' = Append(regret_hist, r2)
        /\ quality' = [quality EXCEPT ![context][action] =
                           QualityStep(@, reward, counts[context][action])]
        /\ counts' = [counts EXCEPT ![context][action] = @ + 1]
        /\ calls' = Append(calls, [op |-> "update_params", context |-> context,
                                   action |-> action, arg |-> reward])
        /\ UNCHANGED <<confidence, action_hist>>

SelectAction ==
    /\ \E c \in Contexts, t \in Timesteps : select_action(c, t)
    /\ UNCHANGED <<a2cVars, valVars>>
UpdateParams ==
    /\ \E c \in Contexts, a \in Arms, r \in Rewards : update_params(c, a, r)
    /\ UNCHANGED <<a2cVars, valVars>>

Next == SelectAction \/ UpdateParams

----------------------------------------------------------------------------
(* A2C *)

\* attributes set by OnPolicyAgent.__init__ from A2C.__init__'s arguments
BaseFields(lr_policy) ==
    [network_type |-> "mlp", batch_size |-> 256, gamma |-> "0.99",
     lr_policy |-> lr_policy, lr_value |-> "0.1", epochs |-> 100,
     rollout_size |-> 2048, layers |-> <<32, 32>>]

\* ... and those A2C.__init__ sets itself
A2CFields ==
    [max_ep_len |-> 1000, noise |-> "None", noise_std |-> "0.1",
     value_coeff |-> "0.5", entropy_coeff |-> "0.01"]

\* the mode of the actor's output distribution at a state
Mode(actor, state) == (actor + state) % Cardinality(Actions)

\* ac.get_action(state, deterministic): the actions it may return
ac_get_action(actor, state, deterministic) ==
    IF deterministic THEN {Mode(actor, state)} ELSE Actions

\* dist.log_prob(action), in abstract units
log_prob(actor, state, action) == IF action = Mode(actor, state) THEN -1 ELSE -2

\* ac.get_value(state)
ac_get_value(critic, state) == 2 * critic + state

RECURSIVE SumSeq(_)
SumSeq(s) == IF s = <<>> THEN 0 ELSE Head(s) + SumSeq(Tail(s))

safe_mean(log) == IF log = <<>> THEN RatInt(0) ELSE Rat(SumSeq(log), Len(log))

NoLogs == [policy_loss |-> <<>>, value_loss |-> <<>>, policy_entropy |-> <<>>]

empty_logs_keep_rewards(curLogs, curRewards) == [logs |-> NoLogs, rewards |-> curRewards]

\* empty_logs: the agent's logs and rewards after the call
empty_logs(curLogs, curRewards) == [logs |-> NoLogs, rewards |-> <<>>]

\* one iteration of update_policy's loop: e = <<policy loss, value loss, entropy loss>>
append_minibatch(l, e) ==
    [policy_loss |-> Append(l.policy_loss, e[1]),
     value_loss |-> Append(l.value_loss, e[2]),
     policy_entropy |-> Append(l.policy_entropy, e[3])]

RECURSIVE append_minibatches(_, _)
append_minibatches(l, es) ==
    IF es = <<>> THEN l
    ELSE append_minibatches(append_minibatch(l, Head(es)), Tail(es))

InitA2C ==
    /\ \E lr \in LearningRates :
          fields = [n \in (DOMAIN BaseFields(lr)) \cup (DOMAIN A2CFields) |->
                        IF n \in DOMAIN A2CFields THEN A2CFields[n]
                        ELSE BaseFields(lr)[n]]
    /\ ac \in [Agents -> [actor : Params, critic : Params]]
    /\ logs = empty_logs(NoLogs, <<>>).logs
    /\ rewards = empty_logs(NoLogs, <<>>).rewards
    /\ ret = [op |-> "init"]

a2c_select_action(state, deterministic) ==
    \E action \in ac_get_action(ac["A"].actor, state, FALSE) :
        /\ ret' = [op |-> "select_action", state |-> state,
                   deterministic |-> deterministic, action |-> action,
                   value |-> ac_get_value(ac["A"].critic, state),
                   log_prob |-> log_prob(ac["A"].actor, state, action)]
        /\ UNCHANGED <<fields, ac, logs, rewards>>

update_policy(entries, actor, critic) ==
    /\ Len(logs.policy_loss) + Len(entries) <= MaxLog
    /\ logs' = append_minibatches(logs, entries)
    /\ ac' = [ac EXCEPT !["A"] = [actor |-> actor, critic |-> critic]]
    /\ ret' = [op |-> "update_policy", batches |-> Len(entries)]
    /\ UNCHANGED <<fields, rewards>>

\* the attributes get_hyperparams reads, in the order it reads them
HyperparamReads ==
    <<"network_type", "batch_size", "gamma", "lr_actor", "lr_critic", "rollout_size">>

get_hyperparams ==
    LET missing == {i \in DOMAIN HyperparamReads : HyperparamReads[i] \notin DOMAIN fields}
    IN  /\ ret' = IF missing # {}
                  THEN [op |-> "get_hyperparams", raised |-> "AttributeError",
                        attribute |-> HyperparamReads[
                            CHOOSE i \in missing : \A j \in missing : i <= j]]
                  ELSE [op |-> "get_hyperparams", raised |-> "none",
                        value |-> [network_type |-> fields["network_type"],
                                   batch_size |-> fields["batch_size"],
                                   gamma |-> fields["gamma"],
                                   lr_actor |-> fields["lr_actor"],
                                   lr_critic |-> fields["lr_critic"],
                                   rollout_size |-> fields["rollout_size"],
                                   policy_weights |-> ac["A"].actor,
                                   value_weights |-> ac["A"].critic]]
        /\ UNCHANGED <<fields, ac, logs, rewards>>

\* the mappings load_weights can be handed: what get_hyperparams just returned,
\* or a checkpoint read from elsewhere
Checkpoints ==
    [source : {"checkpoint"}, policy_weights : Params, value_weights : Params]
    \cup (IF ret.op = "get_hyperparams" /\ ret.raised = "none"
          THEN {[source |-> "get_hyperparams",
                 policy_weights |-> ret.value.policy_weights,
                 value_weights |-> ret.value.value_weights]}
          ELSE {})

\* load_weights on the freshly constructed agent B
load_weights(weights) ==
    /\ ac' = [ac EXCEPT !["B"] = [actor |-> weights.policy_weights,
                                  critic |-> weights.value_weights]]
    /\ ret' = [op |-> "load_weights", source |-> weights.source]
    /\ UNCHANGED <<fields, logs, rewards>>

get_logging_params ==
    LET out == [policy_loss |-> safe_mean(logs.policy_loss),
                value_loss |-> safe_mean(logs.value_loss),
                policy_entropy |-> safe_mean(logs.policy_entropy),
                mean_reward |-> safe_mean(rewards)]
        emptied == empty_logs(logs, rewards)
    IN  /\ logs' = emptied.logs
        /\ rewards' = emptied.rewards
        /\ ret' = [op |-> "get_logging_params", value |-> out]
        /\ UNCHANGED <<fields, ac>>

\* the training loop appends an episode's reward to agent.rewards
collect_reward(r) ==
    /\ Len(rewards) < MaxRewards
    /\ rewards' = Append(rewards, r)
    /\ ret' = [op |-> "collect_reward"]
    /\ UNCHANGED <<fields, ac, logs>>

MinibatchRuns ==
    UNION {[1 .. n -> MinibatchLosses] : n \in 1 .. MaxBatches}

A2CSelectAction ==
    /\ \E s \in Observations, d \in BOOLEAN : a2c_select_action(s, d)
    /\ UNCHANGED <<ucbVars, valVars>>
UpdatePolicy ==
    /\ \E es \in MinibatchRuns, p \in Params, v \in Params : update_policy(es, p, v)
    /\ UNCHANGED <<ucbVars, valVars>>
GetHyperparams == get_hyperparams /\ UNCHANGED <<ucbVars, valVars>>
LoadWeights ==
    /\ \E w \in Checkpoints : load_weights(w)
    /\ UNCHANGED <<ucbVars, valVars>>
GetLoggingParams == get_logging_params /\ UNCHANGED <<ucbVars, valVars>>
CollectReward ==
    /\ \E r \in EpisodeRewards : collect_reward(r)
    /\ UNCHANGED <<ucbVars, valVars>>

NextAgent ==
    \/ A2CSelectAction
    \/ UpdatePolicy
    \/ GetHyperparams
    \/ LoadWeights
    \/ GetLoggingParams
    \/ CollectReward

----------------------------------------------------------------------------
(* Value models *)

None == -1              \* Python's None, where a dimension is expected

StateDims == 1 .. MaxDim
ActionDims == {None} \cup (1 .. MaxDim)
HiddenSizes == {<<>>, <<32>>, <<32, 32>>, <<256>>}
ValTypes == {"V", "Qsa", "Qs", "Q", ""}
KwActivations == {"absent", "relu", "tanh"}   \* kwargs["activation"], if given
Framestacks == {1, 4}
ConvOutputSizes == {9, 2592}
Names == {"mlp", "cnn", "rnn", "MLP"}

DefaultActivation == "relu"

NoModel == [sizes |-> <<>>, activation |-> "none"]

\* mlp(sizes, activation=...): the network is characterised by its arguments;
\* a layer size of None is a TypeError of the layer constructor
mlp(sizes, activation) ==
    IF \E i \in DOMAIN sizes : sizes[i] = None
    THEN [raised |-> "TypeError", built |-> FALSE, model |-> NoModel]
    ELSE [raised |-> "none", built |-> TRUE,
          model |-> [sizes |-> sizes, activation |-> activation]]

\* cnn(channels, activation=...) -> (conv, output_size)
cnn(channels, activation, output_size) ==
    [conv |-> [channels |-> channels, activation |-> activation],
     output_size |-> output_size]

call_arch(arch, sizes, activation) ==
    IF arch = "mlp" THEN mlp(sizes, activation)
    ELSE [raised |-> "TypeError", built |-> FALSE, model |-> NoModel]

get_val_model(arch, val_type, state_dim, hidden, action_dim, activation) ==
    IF val_type = "V"
    THEN call_arch(arch, <<state_dim>> \o hidden \o <<1>>, activation)
    ELSE IF val_type = "Qsa"
    THEN IF action_dim = None
         THEN [raised |-> "TypeError", built |-> FALSE, model |-> NoModel]
         ELSE call_arch(arch, <<state_dim + action_dim>> \o hidden \o <<1>>, activation)
    ELSE IF val_type = "Qs"
    THEN call_arch(arch, <<state_dim>> \o hidden \o <<action_dim>>, activation)
    ELSE [raised |-> "ValueError", built |-> FALSE, model |-> NoModel]

KwActivation(kw) == IF kw # "absent" THEN kw ELSE "relu"

NoConv == [channels |-> <<>>, activation |-> "none"]

MlpValue(state_dim, action_dim, val_type, hidden, kw) ==
    LET activation == KwActivation(kw)
        head == get_val_model("mlp", val_type, state_dim, hidden, action_dim, activation)
    IN  built' = [op |-> "MlpValue", state_dim |-> state_dim, action_dim |-> action_dim,
                  val_type |-> val_type, hidden |-> hidden, kw |-> kw,
                  raised |-> head.raised, head_built |-> head.built,
                  head |-> head.model, conv |-> NoConv]

CNNValue(framestack, action_dim, val_type, fc_layers, kw, conv_out) ==
    LET activation == KwActivation(kw)
        c == cnn(<<framestack, 16, 32>>, activation, conv_out)
        head == get_val_model("mlp", val_type, c.output_size, fc_layers, action_dim,
                              DefaultActivation)
    IN  built' = [op |-> "CNNValue", state_dim |-> c.output_size,
                  action_dim |-> action_dim, val_type |-> val_type,
                  hidden |-> fc_layers, kw |-> kw,
                  raised |-> head.raised, head_built |-> head.built,
                  head |-> head.model, conv |-> c.conv]

value_registry == [mlp |-> "MlpValue", cnn |-> "CNNValue"]

get_value_from_name(name_) ==
    built' = IF name_ \in DOMAIN value_registry
             THEN [op |-> "get_value_from_name", name |-> name_, raised |-> "none",
                   class |-> value_registry[name_]]
             ELSE [op |-> "get_value_from_name", name |-> name_,
                   raised |-> "NotImplementedError", class |-> "none"]

InitValue == built = [op |-> "init"]

BuildMlpValue ==
    /\ \E sd \in StateDims, ad \in ActionDims, vt \in ValTypes, h \in HiddenSizes,
          kw \in KwActivations : MlpValue(sd, ad, vt, h, kw)
    /\ UNCHANGED <<ucbVars, a2cVars>>
BuildCNNValue ==
    /\ \E fs \in Framestacks, ad \in ActionDims \ {None}, vt \in ValTypes,
          h \in HiddenSizes, kw \in KwActivations, out \in ConvOutputSizes :
            CNNValue(fs, ad, vt, h, kw, out)
    /\ UNCHANGED <<ucbVars, a2cVars>>
GetValueFromName ==
    /\ \E n \in Names : get_value_from_name(n)
    /\ UNCHANGED <<ucbVars, a2cVars>>

NextFactory == BuildMlpValue \/ BuildCNNValue \/ GetValueFromName

----------------------------------------------------------------------------
(* Specifications: one per part; the other parts' variables do not move *)

IdleUCB == InitUCB /\ confidence = 1
IdleA2C ==
    /\ InitA2C
    /\ fields["lr_policy"] = "0.01"
    /\ \A g \in Agents : ac[g] = [actor |-> 0, critic |-> 0]

Init == InitUCB /\ IdleA2C /\ InitValue
Spec == Init /\ [][Next]_vars

InitAgent == IdleUCB /\ InitA2C /\ InitValue
SpecA2C == InitAgent /\ [][NextAgent]_vars

InitFactory == IdleUCB /\ IdleA2C /\ InitValue
SpecValue == InitFactory /\ [][NextFactory]_vars

----------------------------------------------------------------------------
(* UCBCBPolicy: properties *)

Last(s) == s[Len(s)]

RECURSIVE SumRewards(_, _, _)
\* the sum of the rewards of the update_params(c, a, .) calls among log
SumRewards(log, c, a) ==
    IF log = <<>> THEN 0
    ELSE LET h == Head(log)
         IN  (IF h.op = "update_params" /\ h.context = c /\ h.action = a
              THEN h.arg ELSE 0) + SumRewards(Tail(log), c, a)

RECURSIVE NumUpdates(_, _, _)
NumUpdates(log, c, a) ==
    IF log = <<>> THEN 0
    ELSE LET h == Head(log)
         IN  (IF h.op = "update_params" /\ h.context = c /\ h.action = a
              THEN 1 ELSE 0) + NumUpdates(Tail(log), c, a)

NumOp(log, op) == Cardinality({i \in 1 .. Len(log) : log[i].op = op})

RECURSIVE SumOver(_, _)
SumOver(f, S) ==
    IF S = {} THEN 0
    ELSE LET x == CHOOSE y \in S : TRUE
         IN  f[x] + SumOver(f, S \ {x})

SumCounts == SumOver([c \in Contexts |-> SumOver(counts[c], Arms)], Contexts)

\* the step just taken was a call of op (calls grows by one record per call)
Called(op) == Len(calls') = Len(calls) + 1 /\ Last(calls').op = op

\* C1: after k >= 1 calls update_params(c, a, r_1 .. r_k), interleaved with any
\* other calls, quality[c, a] is the arithmetic mean (r_1 + ... + r_k) / k.
C1_IncrementalMean ==
    \A c \in Contexts, a \in Arms :
        LET k == NumUpdates(calls, c, a)
        IN  k >= 1 =>
              /\ quality[c][a][2] > 0
              /\ quality[c][a][1] * k = SumRewards(calls, c, a) * quality[c][a][2]

C1_Witness ==
    \E c \in Contexts, a \in Arms :
        /\ NumUpdates(calls, c, a) = 2
        /\ quality[c][a][2] = 2
        /\ \E c2 \in Contexts, a2 \in Arms :
              <<c2, a2>> # <<c, a>> /\ NumUpdates(calls, c2, a2) = 1
                                   /\ quality[c2][a2] # RatInt(0)

C2_RegretStep ==
    Called("update_params") =>
        LET c == Last(calls').context
            a == Last(calls').action
        IN  /\ \E best \in Arms :
                  /\ \A o \in Arms : RatLE(quality[c][o], quality[c][best])
                  /\ regret' = RatAdd(regret, RatSub(quality[c][best], quality[c][a]))
            /\ regret_hist' = Append(regret_hist, regret')

Upd(c, a, r) == [op |-> "update_params", context |-> c, action |-> a, arg |-> r]

C2_Scenario ==
    /\ (calls = <<Upd(0, 0, 1)>> => regret = RatInt(0))
    /\ (calls = <<Upd(0, 0, 1), Upd(0, 1, 0)>> =>
            /\ quality[0][0] = RatInt(1) /\ quality[0][1] = RatInt(0)
            /\ counts[0][0] = 1 /\ counts[0][1] = 1
            /\ regret = RatInt(1)
            /\ regret_hist = <<RatInt(0), RatInt(1)>>)

\* C2: every update_params(c, a, r) adds max(quality[c]) - quality[c, a] to the
\* regret, both read from the quality row as it was before the call, and appends
\* the new regret to the regret history; update_params(0,0,1) then
\* update_params(0,1,0) gives quality [1,0], counts [1,1], regret 1 (0 after the first).
C2_ReadBeforeWrite == [][C2_RegretStep]_vars /\ []C2_Scenario

C2_Witness == calls = <<Upd(0, 0, 1), Upd(0, 1, 0)>>

C3_Frame ==
    Called("update_params") =>
        LET c == Last(calls').context
            a == Last(calls').action
        IN  /\ counts'[c][a] = counts[c][a] + 1
            /\ \A c2 \in Contexts, a2 \in Arms :
                  <<c2, a2>> # <<c, a>> =>
                      /\ counts'[c2][a2] = counts[c2][a2]
                      /\ quality'[c2][a2] = quality[c2][a2]

C3_Shape ==
    /\ DOMAIN counts = Contexts /\ DOMAIN quality = Contexts
    /\ \A c \in Contexts :
          /\ DOMAIN counts[c] = Arms /\ DOMAIN quality[c] = Arms
          /\ \A a \in Arms : counts[c][a] >= 0

\* C3: update_params(c, a, r) adds exactly 1 to counts[c, a] and changes no other
\* entry of counts and no other entry of quality; both arrays keep the shape
\* (numContexts, numArms) and every count is >= 0.
C3_CountsFrame == [][C3_Frame]_vars /\ []C3_Shape

C3_Witness ==
    /\ calls # <<>> /\ Last(calls).op = "update_params"
    /\ \E c \in Contexts, a \in Arms :
          /\ <<c, a>> # <<Last(calls).context, Last(calls).action>>
          /\ counts[c][a] >= 1 /\ quality[c][a] # RatInt(0)

C4_Step ==
    /\ RatLE(regret, regret')
    /\ (Called("select_action") => regret' = regret)

C4_History ==
    \A i \in 1 .. Len(regret_hist) - 1 : RatLE(regret_hist[i], regret_hist[i + 1])

\* C4: the cumulative regret never decreases, whatever the contexts, actions and
\* rewards (negative ones included): regret_hist is non-decreasing and
\* select_action leaves the regret unchanged.
C4_RegretMonotone == [][C4_Step]_vars /\ []C4_History

C4_Witness ==
    /\ Len(regret_hist) >= 2
    /\ RatLT(regret_hist[1], Last(regret_hist))
    /\ \E i \in 1 .. Len(reward_hist) : reward_hist[i] < 0

\* C5: select_action(c, t) returns an index in [0, numArms) whose score
\* quality + confidence * sqrt(2 ln(t+1) / (counts+1)) is maximal in context c,
\* the lowest such index on ties; on a fresh policy, or at t = 0 with equal
\* qualities, it returns 0.  (select_action changes neither quality nor counts,
\* so the scores of the call are those of the state after it.)
C5_ArgmaxFirst ==
    (calls # <<>> /\ Last(calls).op = "select_action") =>
        LET c == Last(calls).context
            a == Last(calls).action
            t == Last(calls).arg
        IN  /\ a \in Arms
            /\ \A o \in Arms : Score(c, o, t) <= Score(c, a, t)
            /\ \A o \in Arms : o < a => Score(c, o, t) < Score(c, a, t)
            /\ (reward_hist = <<>> => a = 0)
            /\ ((t = 0 /\ \A o \in Arms : quality[c][o] = quality[c][0]) => a = 0)
            /\ Last(action_hist) = <<c, a>>

C5_Witness ==
    /\ calls # <<>> /\ Last(calls).op = "select_action"
    /\ reward_hist # <<>>
    /\ LET c == Last(calls).context
           a == Last(calls).action
           t == Last(calls).arg
       IN  \E o \in Arms : o > a /\ Score(c, o, t) = Score(c, a, t)
                                  /\ counts[c][o] # counts[c][a]

IsPrefix(s, t) == Len(s) <= Len(t) /\ \A i \in 1 .. Len(s) : s[i] = t[i]

C10_Counts ==
    /\ Len(reward_hist) = Len(regret_hist)
    /\ Len(reward_hist) = NumOp(calls, "update_params")
    /\ Len(reward_hist) = SumCounts
    /\ Len(action_hist) = NumOp(calls, "select_action")
    /\ (regret_hist # <<>> => Last(regret_hist) = regret)

C10_Step ==
    /\ IsPrefix(action_hist, action_hist')
    /\ IsPrefix(reward_hist, reward_hist')
    /\ IsPrefix(regret_hist, regret_hist')
    /\ (Called("select_action") =>
            /\ action_hist' = Append(action_hist,
                                      <<Last(calls').context, Last(calls').action>>)
            /\ UNCHANGED <<quality, counts, regret, reward_hist, regret_hist>>)
    /\ (Called("update_params") =>
            /\ reward_hist' = Append(reward_hist, Last(calls').arg)
            /\ UNCHANGED action_hist)

\* C10: the reward and regret histories have one entry per update_params call
\* (which is also the sum of counts), the action history one per select_action
\* call, the last regret_hist entry is the current regret, the histories only
\* grow at the end, select_action appends (context, returned action) and changes
\* nothing else, and update_params leaves the action history alone.
C10_Histories == [][C10_Step]_vars /\ []C10_Counts

C10_Witness ==
    /\ Len(action_hist) >= 1 /\ Len(reward_hist) >= 2
    /\ Last(calls).op = "select_action"

----------------------------------------------------------------------------
(* A2C: properties *)

\* C6: select_action(state, deterministic) returns the mode of the actor's
\* distribution when deterministic is True (and a sample otherwise), together
\* with the critic's value at the state and the log-probability of the action.
C6_HonoursDeterministic ==
    ret.op = "select_action" =>
        /\ ret.action \in Actions
        /\ (ret.deterministic => ret.action = Mode(ac["A"].actor, ret.state))
        /\ ret.value = ac_get_value(ac["A"].critic, ret.state)
        /\ ret.log_prob = log_prob(ac["A"].actor, ret.state, ret.action)

\* what select_action does return: a sample whatever the flag, with the value
\* and the log-probability of that sample
SelectActionReturns ==
    ret.op = "select_action" =>
        /\ ret.action \in ac_get_action(ac["A"].actor, ret.state, FALSE)
        /\ ret.value = ac_get_value(ac["A"].critic, ret.state)
        /\ ret.log_prob = log_prob(ac["A"].actor, ret.state, ret.action)

HyperparamKeys ==
    {"network_type", "batch_size", "gamma", "lr_actor", "lr_critic", "rollout_size",
     "policy_weights", "value_weights"}

\* C7: get_hyperparams succeeds on a constructed agent and returns a mapping with
\* the eight checkpoint keys, lr_actor and lr_critic being the learning rates the
\* agent was constructed with; load_weights with that mapping makes the fresh
\* agent B's actor and critic parameters equal to A's.
C7_CheckpointRoundTrip ==
    /\ ret.op = "get_hyperparams" =>
          /\ ret.raised = "none"
          /\ DOMAIN ret.value = HyperparamKeys
          /\ ret.value.lr_actor = fields["lr_policy"]
          /\ ret.value.lr_critic = fields["lr_value"]
          /\ ret.value.policy_weights = ac["A"].actor
          /\ ret.value.value_weights = ac["A"].critic
    /\ (ret.op = "load_weights" /\ ret.source = "get_hyperparams") => ac["B"] = ac["A"]

\* what load_weights does with any mapping holding the two weight entries
LoadWeightsCopies ==
    [][(ret'.op = "load_weights" /\ ac' # ac) =>
          \E w \in Checkpoints :
              /\ ac'["B"] = [actor |-> w.policy_weights, critic |-> w.value_weights]
              /\ ac'["A"] = ac["A"]]_vars

LogKeys == {"policy_loss", "value_loss", "policy_entropy"}

C9_EqualLength ==
    /\ DOMAIN logs = LogKeys
    /\ \A k \in LogKeys : Len(logs[k]) = Len(logs["policy_loss"])
    /\ (ret.op = "get_logging_params" =>
            /\ \A k \in LogKeys : logs[k] = <<>>
            /\ rewards = <<>>)

IsMeanOf(m, log) ==
    /\ m[2] > 0
    /\ IF log = <<>> THEN m[1] = 0 ELSE m[1] * Len(log) = SumSeq(log) * m[2]

C9_Step ==
    /\ (ret'.op = "update_policy" /\ logs' # logs) =>
          \A k \in LogKeys :
              /\ IsPrefix(logs[k], logs'[k])
              /\ Len(logs'[k]) = Len(logs[k]) + ret'.batches
    /\ (ret'.op = "get_logging_params" /\ ret' # ret) =>
          /\ \A k \in LogKeys : IsMeanOf(ret'.value[k], logs[k])
          /\ IsMeanOf(ret'.value.mean_reward, rewards)
          /\ \A k \in LogKeys : logs'[k] = <<>>
          /\ rewards' = <<>>
    /\ (ret'.op \notin {"update_policy", "get_logging_params"}) =>
          logs' = logs

\* C9: the three log sequences always have equal length; update_policy appends
\* one entry to each per minibatch and removes none; get_logging_params returns
\* the means of the entries accumulated since the previous report (and the mean
\* reward) and leaves the three sequences and the rewards empty, so that no entry
\* is reported twice.
C9_LogsAccumulateAndReset == [][C9_Step]_vars /\ []C9_EqualLength

C9_Witness ==
    /\ ret.op = "get_logging_params"
    /\ ret.value.policy_loss[2] = 2
    /\ ret.value.value_loss # ret.value.policy_loss
    /\ ret.value.mean_reward # RatInt(0)

----------------------------------------------------------------------------
(* Value models: properties *)

ValidTypes == {"V", "Qsa", "Qs"}

ExpectedSizes(val_type, state_dim, hidden, action_dim) ==
    CASE val_type = "V" -> <<state_dim>> \o hidden \o <<1>>
      [] val_type = "Qsa" -> <<state_dim + action_dim>> \o hidden \o <<1>>
      [] val_type = "Qs" -> <<state_dim>> \o hidden \o <<action_dim>>

\* the facts about a value model's head that do not involve its activation
HeadContract ==
    /\ (built.op \in {"MlpValue", "CNNValue"} /\ built.val_type \in ValidTypes
            /\ built.action_dim # None) =>
          /\ built.raised = "none" /\ built.head_built
          /\ built.head.sizes = ExpectedSizes(built.val_type, built.state_dim,
                                              built.hidden, built.action_dim)
    /\ (built.op \in {"MlpValue", "CNNValue"} /\ built.val_type \notin ValidTypes) =>
          built.raised = "ValueError" /\ ~built.head_built
    /\ built.op = "get_value_from_name" =>
          /\ built.name = "mlp" => built.raised = "none" /\ built.class = "MlpValue"
          /\ built.name = "cnn" => built.raised = "none" /\ built.class = "CNNValue"
          /\ built.name \notin {"mlp", "cnn"} =>
                built.raised = "NotImplementedError" /\ built.class = "none"

\* C8: for the kinds V, Qsa and Qs the head has the layer sizes
\* [stateDim (+ actionDim)] + hidden + [1 or actionDim] and the requested
\* activation, for every other kind the build fails with ValueError and builds
\* no head, for the MLP and for the CNN variant (with the convolution's output
\* size as stateDim); get_value_from_name returns the class registered for
\* "mlp" and "cnn" and fails with NotImplementedError for any other name.
C8_ValueFactory ==
    /\ HeadContract
    /\ (built.op \in {"MlpValue", "CNNValue"} /\ built.val_type \in ValidTypes
            /\ built.action_dim # None) =>
          built.head.activation = KwActivation(built.kw)

\* what the code does: the MLP variant's head gets the requested activation, the
\* CNN variant's head the default one, whatever was requested
HeadActivation ==
    (built.op \in {"MlpValue", "CNNValue"} /\ built.head_built) =>
        built.head.activation =
            IF built.op = "MlpValue" THEN KwActivation(built.kw) ELSE DefaultActivation

====
